---- MODULE Spec2Model ----
(***************************************************************************)
(* Model of solar_appv1.py, a Streamlit page.  Streamlit re-runs the whole *)
(* script, top to bottom, each time a widget changes; one such run is a    *)
(* "pass".  The state is the session's widget values, the entry that       *)
(* st.cache_data keeps for fetch_archive_data, and what the last pass put  *)
(* on the page.                                                            *)
(*                                                                         *)
(* Fixed-point units (the script computes in floats):                      *)
(*   electricity_rate   tenths of a rupee per kWh   (8.5  -> 85)           *)
(*   sys_capacity       tenths of a kW              (5.0  -> 50)           *)
(*   sys_efficiency     percent, before the /100    (0.78 -> 78)           *)
(*   production         1e-6 kWh  (ghi/1000 * capacity * efficiency)       *)
(*   latitude/longitude 1e-4 degree                 (18.5204 -> 185204)    *)
(*   area_sqm           whole square metres, area_sqft 1e-4 sq ft,         *)
(*   est_capacity       1e-3 kW                                            *)
(* Python's None and pandas' NaN are the empty tuple; a present value v is *)
(* the one-element tuple <<v>>.                                            *)
(***************************************************************************)
EXTENDS Integers, Sequences, FiniteSets, TLC

None == <<>>
NaN == <<>>
Some(x) == <<x>>
Val(o) == o[1]

\* ------------------------------------------------------------- bounds
\* Longest hourly series the archive answers with.
MaxLen == 2
\* Most shapes the user leaves on the map.
MaxDrawings == 2

\* ------------------------------------------------- widget value domains
DefaultAddress == "Pune, Maharashtra"
Addresses == {"", DefaultAddress}
DefaultBill == 3000
BillStep == 500
Bills == {0 - BillStep, 0, DefaultBill}
RateMin == 50
DefaultRate == 85
Rates == {RateMin, DefaultRate}
CapacityMin == 10
DefaultCapacity == 50
Capacities == {CapacityMin, DefaultCapacity}
DefaultEfficiency == 78
EfficiencyMax == 95
Efficiencies == {DefaultEfficiency, EfficiencyMax}
DefaultLat == 185204
DefaultLon == 738567
Lats == {0 - DefaultLat, 0, DefaultLat}
Lons == {0, DefaultLon}

\* Instants of the 2023 archive year that a series can hold, in time order.
Stamp(m, d, h) == [month |-> m, day |-> d, hour |-> h]
TimeAxis == <<Stamp(1, 31, 12), Stamp(4, 1, 12), Stamp(4, 7, 12)>>
Date(m, d) == <<m, d>>
Days == {Date(1, 31), Date(4, 1), Date(4, 7)}
DefaultDateRange == <<Date(4, 1), Date(4, 7)>>
\* st.date_input in range mode: one date while the user is still picking.
DateRanges == {<<a>> : a \in Days} \cup {<<a, b>> : a \in Days, b \in Days}
GhiValues == {None, Some(0), Some(500)}

\* GeoJSON geometries the Draw toolbar can produce (polygon and rectangle
\* tools only): rings of (x, y) vertices, metres east/north of the map centre.
Polygon(ring) == [type |-> "Polygon", coordinates |-> ring]
SquareCCW == Polygon(<<<<0, 0>>, <<10, 0>>, <<10, 10>>, <<0, 10>>, <<0, 0>>>>)
SquareCW == Polygon(<<<<0, 0>>, <<0, 10>>, <<10, 10>>, <<10, 0>>, <<0, 0>>>>)
Collinear == Polygon(<<<<0, 0>>, <<10, 0>>, <<20, 0>>, <<0, 0>>>>)
Shapes == {SquareCCW, SquareCW, Collinear}

\* ------------------------------------------------- external services
\* What geolocator.geocode can do with an address: raise (no network, rate
\* limit, service error), find nothing, or find a place.
Found(lat, lon, address) ==
    [kind |-> "found", latitude |-> lat, longitude |-> lon, address |-> address]
GeocodeOutcomes ==
    { [kind |-> "raise", latitude |-> 0, longitude |-> 0, address |-> ""],
      [kind |-> "none", latitude |-> 0, longitude |-> 0, address |-> ""],
      Found(DefaultLat, DefaultLon, "Pune, Maharashtra, India") }

\* get_coordinates: the (lat, lon, address) triple, and whether its except
\* branch wrote the "Geocoding error" box.
get_coordinates(outcome) ==
    IF outcome.kind = "raise"
    THEN [lat |-> None, lon |-> None, full_address |-> None, error_shown |-> TRUE]
    ELSE IF outcome.kind = "none"
    THEN [lat |-> None, lon |-> None, full_address |-> None, error_shown |-> FALSE]
    ELSE [lat |-> Some(outcome.latitude), lon |-> Some(outcome.longitude),
          full_address |-> Some(outcome.address), error_shown |-> FALSE]

\* Strictly increasing index tuples into TimeAxis: the archive answers in
\* time order.
Ascending ==
    { ix \in UNION { [1..n -> 1..Len(TimeAxis)] : n \in 0..MaxLen } :
        \A i \in 1..Len(ix) : \A k \in 1..Len(ix) : i < k => ix[i] < ix[k] }
Hourly(time, swr) == [time |-> time, shortwave_radiation |-> swr]
Json(hourly) == [hourly |-> hourly]
SeriesBodies ==
    { Json(Some(Hourly(Some([i \in 1..Len(ix) |-> TimeAxis[ix[i]]]), Some(g)))) :
        ix \in Ascending, g \in UNION { [1..n -> GhiValues] : n \in 0..MaxLen } }
\* A well-formed answer has one radiation value per instant.
WellFormed ==
    { j \in SeriesBodies :
        Len(Val(Val(j.hourly).time)) = Len(Val(Val(j.hourly).shortwave_radiation)) }
\* Answers the script does not expect: no 'hourly', 'hourly' without the
\* radiation series, without 'time', or with arrays of unequal length.
NoHourly == Json(None)
NoRadiation == Json(Some(Hourly(Some(<<TimeAxis[1]>>), None)))
NoTime == Json(Some(Hourly(None, Some(<<Some(500)>>))))
Unequal == Json(Some(Hourly(Some(<<TimeAxis[1], TimeAxis[2]>>), Some(<<Some(500)>>))))

\* What requests.get can do: raise before a response exists (timeout,
\* connection error), or answer with a status and a body.
Response(raised, status, json, text) ==
    [raised |-> raised, status_code |-> status, json |-> json, text |-> text]
Responses ==
    { Response(TRUE, 0, None, "Read timed out") }
    \cup { Response(FALSE, 500, None, "Internal Server Error") }
    \cup { Response(FALSE, 200, None, "<html>") }
    \cup { Response(FALSE, 200, Some(j), "{...}") :
             j \in WellFormed \cup {NoHourly, NoRadiation, NoTime, Unequal} }

\* fetch_archive_data: (data, status_code, resp_snip).
Fetched(data, status, snip) ==
    [data |-> data, status_code |-> status, resp_snip |-> snip]
fetch_archive_data(res) ==
    IF res.raised
    THEN \* res is unbound in the handler: the inner except answers
         Fetched(None, None, Some(res.text))
    ELSE IF ~(res.status_code \in 200..299)
    THEN \* raise_for_status
         Fetched(None, Some(res.status_code), Some(res.text))
    ELSE IF res.json = None
    THEN \* res.json() raises
         Fetched(None, Some(res.status_code), Some(res.text))
    ELSE IF Val(res.json).hourly = None
            \/ Val(Val(res.json).hourly).shortwave_radiation = None
    THEN Fetched(None, Some(res.status_code), Some(res.text))
    ELSE Fetched(res.json, Some(res.status_code), None)

\* calculate_geodesic_area: |signed area| of the ring.  The ellipsoid is
\* replaced by the plane (the rings are a few metres across).
RECURSIVE Shoelace(_, _)
Shoelace(ring, i) ==
    IF i >= Len(ring) THEN 0
    ELSE ring[i][1] * ring[i + 1][2] - ring[i + 1][1] * ring[i][2]
         + Shoelace(ring, i + 1)
Abs(x) == IF x < 0 THEN 0 - x ELSE x
calculate_geodesic_area(geojson_geometry) ==
    Abs(Shoelace(geojson_geometry.coordinates, 1) \div 2)

\* ------------------------------------------------------ pandas steps
\* Mutant: `if lat is not None` in place of `if lat`.
Truthy_is_not_none(o) == o # None
Truthy(o) == o # None /\ Val(o) # 0
Frac(n, d) == [num |-> n, den |-> d]

\* One row of df after line 146.  A None in the column is NaN to pandas, and
\* NaN / 1000 * capacity * efficiency is NaN.
production(ghi, capacity, efficiency) ==
    IF ghi = NaN THEN NaN ELSE Some(Val(ghi) * capacity * efficiency)
Row(ts, ghi, capacity, efficiency) ==
    [Timestamp |-> ts, ghi |-> ghi,
     production |-> production(ghi, capacity, efficiency)]

\* Series.sum(): NaN is skipped (skipna), an empty or all-NaN column sums to 0.
RECURSIVE SumFrom(_, _)
SumFrom(df, i) ==
    IF i > Len(df) THEN 0
    ELSE (IF df[i].production = NaN THEN 0 ELSE Val(df[i].production))
         + SumFrom(df, i + 1)
sum(df) == SumFrom(df, 1)

\* strftime('%b')
MonthLabel(ts) ==
    <<"Jan", "Feb", "Mar", "Apr", "May", "Jun",
      "Jul", "Aug", "Sep", "Oct", "Nov", "Dec">>[ts.month]

\* Mutant: sort_index(ascending=False).
RECURSIVE sort_index_descending(_)
sort_index_descending(keys) ==
    IF keys = {} THEN <<>>
    ELSE LET m == CHOOSE x \in keys : \A y \in keys : x >= y
         IN  <<m>> \o sort_index_descending(keys \ {m})
RECURSIVE sort_index(_)
sort_index(keys) ==
    IF keys = {} THEN <<>>
    ELSE LET m == CHOOSE x \in keys : \A y \in keys : x <= y
         IN  <<m>> \o sort_index(keys \ {m})
InMonth(m, r) == r.Timestamp.month = m
\* df.groupby(df['Timestamp'].dt.month).agg(production: sum, Month: first)
\* .sort_index(): one row per month that occurs in df.
groupby_month(df) ==
    LET keys == sort_index({ df[i].Timestamp.month : i \in 1..Len(df) })
        group(m) == SelectSeq(df, LAMBDA r : InMonth(m, r))
    IN  [ k \in 1..Len(keys) |->
            [month |-> keys[k], production |-> sum(group(keys[k])),
             Month |-> MonthLabel(group(keys[k])[1].Timestamp)] ]

\* datetime.date comparison: by month, then by day (one year of data).
DateOf(ts) == Date(ts.month, ts.day)
\* Mutant: `<` in place of `<=`.
DateLeq_strict(a, b) == a[1] < b[1] \/ (a[1] = b[1] /\ a[2] < b[2])
DateLeq(a, b) == a[1] < b[1] \/ (a[1] = b[1] /\ a[2] <= b[2])
InRange(date_range, r) ==
    DateLeq(date_range[1], DateOf(r.Timestamp))
    /\ DateLeq(DateOf(r.Timestamp), date_range[2])
\* df.loc[mask]
filter(df, date_range) == SelectSeq(df, LAMBDA r : InRange(date_range, r))

\* df.to_csv(index=False): a header and one line per row; NaN is written as
\* the empty field.  df has gained the Month column by then (line 171).
Field(o) == IF o = NaN THEN "" ELSE ToString(Val(o))
to_csv(df) ==
    <<<<"Timestamp", "ghi", "production", "Month">>>>
    \o [ i \in 1..Len(df) |->
           <<ToString(df[i].Timestamp), Field(df[i].ghi),
             Field(df[i].production), MonthLabel(df[i].Timestamp)>> ]

\* ------------------------------------------------------------ one pass
\* What a pass leaves on the page.  shown: the boxes of the main page;
\* sidebar: the DEBUG write-outs; exception: the uncaught exception that
\* ended the script ("" when it ran to its end); geocode: what
\* get_coordinates returned, when it was called.
Blank ==
    [shown |-> {}, sidebar |-> {}, exception |-> "",
     geocoded |-> FALSE, geocode |-> None, lat |-> None, lon |-> None, full_address |-> None,
     fetch_called |-> FALSE, fetch_args |-> None,
     status_code |-> None, resp_snip |-> None, has_data |-> FALSE,
     df |-> None, annual_yield |-> None, monthly_yield |-> None,
     annual_savings |-> None, metrics |-> {}, bill_offset |-> None,
     co2_saved |-> None, trees |-> None,
     monthly_df |-> None, filtered_df |-> None, csv |-> None,
     map_shown |-> FALSE, area_sqm |-> None, area_sqft |-> None,
     est_capacity |-> None]

Raise(p, e) == [p EXCEPT !.exception = e]

\* The ghi column is float64 when some value in it is a number; a column that
\* is empty or holds nothing but None has dtype object.
IsFloat64(df) == \E i \in 1..Len(df) : df[i].ghi # None

\* Line 157.  monthly_bill / electricity_rate is a Python float.  monthly_yield
\* is a numpy float64 when the column is float64: division by 0.0 gives inf,
\* or nan for 0/0, and is formatted.  It is a Python float when the column
\* has dtype object (its sum is the int 0): division by 0.0 raises.
\* The finite value is num/den in units of 1e-5 percent.
BillOffset(annual_yield, float64, monthly_bill, electricity_rate) ==
    IF monthly_bill # 0
    THEN [kind |-> "finite",
          value |-> Frac(annual_yield * electricity_rate, 12 * monthly_bill)]
    ELSE IF ~float64 THEN [kind |-> "ZeroDivisionError", value |-> Frac(0, 0)]
    ELSE IF annual_yield = 0 THEN [kind |-> "nan", value |-> Frac(0, 0)]
    ELSE [kind |-> "inf", value |-> Frac(annual_yield, 0)]

\* Lines 149-166.
tab_summary(p, inp) ==
    LET df == Val(p.df)
        annual_yield == sum(df)
        offset == BillOffset(annual_yield, IsFloat64(df), inp.monthly_bill,
                             inp.electricity_rate)
        p1 == [p EXCEPT !.annual_yield = Some(annual_yield),
                        !.monthly_yield = Some(Frac(annual_yield, 12)),
                        !.annual_savings = Some(annual_yield * inp.electricity_rate),
                        !.metrics = {"Est. Monthly Generation", "Annual Bill Savings"}]
    IN  IF offset.kind = "ZeroDivisionError" THEN Raise(p1, "ZeroDivisionError")
        ELSE [p1 EXCEPT !.bill_offset = Some(offset),
                        !.metrics = @ \cup {"Bill Offset", "CO2 Emissions Saved",
                                            "Equivalent Trees Planted"},
                        \* 0.7 kg per kWh, in 1e-7 tonne
                        !.co2_saved = Some(annual_yield * 7),
                        \* int(co2_saved * 45)
                        !.trees = Some((annual_yield * 63) \div 2000000000),
                        !.shown = @ \cup {"Vendor Tip"}]

\* Lines 169-181.
tab_monthly(p) ==
    [p EXCEPT !.monthly_df = Some(groupby_month(Val(p.df)))]

\* Lines 184-198.
tab_hourly(p, inp) ==
    [p EXCEPT !.filtered_df = IF Len(inp.date_range) = 2
                              THEN Some(filter(Val(p.df), inp.date_range))
                              ELSE None,
              !.csv = Some(to_csv(Val(p.df)))]

\* Lines 201-246.  area_sqft in 1e-4 sq ft, est_capacity in 1e-3 kW.
tab_area(p, inp) ==
    LET p1 == [p EXCEPT !.map_shown = TRUE]
        geometry == inp.all_drawings[Len(inp.all_drawings)]
        area_sqm == calculate_geodesic_area(geometry)
    IN  IF inp.all_drawings = <<>> THEN p1
        ELSE IF geometry.type = "Polygon"
        THEN [p1 EXCEPT !.area_sqm = Some(area_sqm),
                        !.area_sqft = Some(area_sqm * 107639),
                        !.est_capacity = Some((area_sqm * 1000) \div 10),
                        !.shown = @ \cup {"Estimated Area",
                                          "Potential System Capacity"}]
        ELSE [p1 EXCEPT !.shown = @ \cup {"Please draw a polygon or rectangle."}]

\* Lines 141-260: the body of `if data:`.
Results(p, inp, data) ==
    LET hourly == Val(data.hourly)
        time == Val(hourly.time)
        ghi == Val(hourly.shortwave_radiation)
        df == [ i \in 1..Len(time) |->
                  Row(time[i], ghi[i], inp.sys_capacity, inp.sys_efficiency) ]
        p1 == [p EXCEPT !.df = Some(df)]
        p2 == tab_summary(p1, inp)
    IN  IF hourly.time = None THEN Raise(p, "KeyError")
        ELSE IF Len(time) # Len(ghi) THEN Raise(p, "ValueError")
        ELSE IF p2.exception # "" THEN p2
        ELSE [tab_area(tab_hourly(tab_monthly(p2), inp), inp)
                EXCEPT !.shown = @ \cup {"Self-Assessment Guide"}]

\* Lines 107-264.  loc is what get_coordinates returned (None when it was not
\* called), fetched what fetch_archive_data returned (None when not called).
\* Mutant: fall back to the default coordinates when geocoding gives none.
Located_fallback(inp, loc) ==
    IF inp.use_manual
    THEN [lat |-> inp.manual_lat, lon |-> inp.manual_lon]
    ELSE IF Val(loc).lat = None
    THEN [lat |-> Some(DefaultLat), lon |-> Some(DefaultLon)]
    ELSE [lat |-> Val(loc).lat, lon |-> Val(loc).lon]
Located(inp, loc) ==
    IF inp.use_manual
    THEN [lat |-> inp.manual_lat, lon |-> inp.manual_lon]
    ELSE [lat |-> Val(loc).lat, lon |-> Val(loc).lon]
Render(inp, loc, fetched) ==
    LET at == Located(inp, loc)
        p1 == [Blank EXCEPT
                 !.geocoded = ~inp.use_manual,
                 !.geocode = IF inp.use_manual THEN None ELSE loc,
                 !.lat = at.lat, !.lon = at.lon,
                 !.full_address = IF inp.use_manual THEN Some("Manual")
                                  ELSE Val(loc).full_address,
                 !.shown = IF ~inp.use_manual /\ Val(loc).error_shown
                           THEN {"Geocoding error"} ELSE {},
                 !.sidebar = IF inp.debug
                             THEN {"Address input", "Geocode result"} ELSE {}]
        f == Val(fetched)
        p2 == [p1 EXCEPT
                 !.shown = @ \cup {"Analyzing", "tabs"},
                 !.fetch_called = TRUE,
                 !.fetch_args = Some(<<Val(at.lat), Val(at.lon)>>),
                 !.status_code = f.status_code, !.resp_snip = f.resp_snip,
                 !.has_data = f.data # None,
                 !.sidebar = @ \cup (IF inp.debug
                                     THEN {"Archive fetch status"}
                                          \cup (IF f.resp_snip # None
                                                THEN {"Archive response snippet"}
                                                ELSE {})
                                     ELSE {})]
    IN  IF ~(inp.address_input # "" \/ inp.use_manual)
        THEN [Blank EXCEPT !.shown = {"Enter your address"}]
        ELSE IF ~Truthy(at.lat)
        THEN [p1 EXCEPT !.shown = @ \cup {"Address not found"}]
        ELSE IF f.data = None THEN p2
        ELSE Results(p2, inp, Val(f.data))

\* ------------------------------------------------------------- state
VARIABLES
    address_input, monthly_bill, electricity_rate, sys_capacity,
    sys_efficiency, debug, use_manual, manual_lat, manual_lon,
    date_range,     \* value of the "Select Dates" widget
    all_drawings,   \* shapes the user has left on the map widget
    cache,          \* st.cache_data's entry for fetch_archive_data
    page            \* what the last pass rendered

widgets ==
    <<address_input, monthly_bill, electricity_rate, sys_capacity,
      sys_efficiency, debug, use_manual, manual_lat, manual_lon,
      date_range, all_drawings>>
vars == <<widgets, cache, page>>

Inputs ==
    [address_input |-> address_input, monthly_bill |-> monthly_bill,
     electricity_rate |-> electricity_rate, sys_capacity |-> sys_capacity,
     sys_efficiency |-> sys_efficiency, debug |-> debug,
     use_manual |-> use_manual, manual_lat |-> manual_lat,
     manual_lon |-> manual_lon, date_range |-> date_range,
     all_drawings |-> all_drawings]

\* Lines 86-101 and 188: the widgets' default values.
Defaults ==
    [address_input |-> DefaultAddress, monthly_bill |-> DefaultBill,
     electricity_rate |-> DefaultRate, sys_capacity |-> DefaultCapacity,
     sys_efficiency |-> DefaultEfficiency, debug |-> FALSE,
     use_manual |-> FALSE, manual_lat |-> None, manual_lon |-> None,
     date_range |-> DefaultDateRange, all_drawings |-> <<>>]

\* @st.cache_data(ttl=3600): a call with the arguments of the cached entry
\* returns the cached tuple (failures are tuples too, and are cached); any
\* other call runs the function and replaces the entry.  The start and end
\* dates are the same in every call, so the key is (lat, lon).
CacheEntry(key, value) == Some([key |-> key, value |-> value])
cached_fetch(c, key) ==
    IF c # None /\ Val(c).key = key
    THEN { [value |-> Val(c).value, cache |-> c] }
    ELSE { [value |-> fetch_archive_data(res),
            cache |-> CacheEntry(key, fetch_archive_data(res))] : res \in Responses }

\* Every way one run of the script can go with the widget values inp and the
\* cache c: the page it renders and the cache it leaves.
Passes(inp, c) ==
    LET locs == IF inp.use_manual THEN {None}
                ELSE { Some(get_coordinates(o)) : o \in GeocodeOutcomes }
        after(loc) ==
            LET at == Located(inp, loc)
            IN  IF ~Truthy(at.lat)
                THEN { [page |-> Render(inp, loc, None), cache |-> c] }
                ELSE { [page |-> Render(inp, loc, Some(f.value)), cache |-> f.cache] :
                         f \in cached_fetch(c, <<Val(at.lat), Val(at.lon)>>) }
    IN  IF ~(inp.address_input # "" \/ inp.use_manual)
        THEN { [page |-> Render(inp, None, None), cache |-> c] }
        ELSE UNION { after(loc) : loc \in locs }

Set(inp) ==
    /\ address_input' = inp.address_input
    /\ monthly_bill' = inp.monthly_bill
    /\ electricity_rate' = inp.electricity_rate
    /\ sys_capacity' = inp.sys_capacity
    /\ sys_efficiency' = inp.sys_efficiency
    /\ debug' = inp.debug
    /\ use_manual' = inp.use_manual
    /\ manual_lat' = inp.manual_lat
    /\ manual_lon' = inp.manual_lon
    /\ date_range' = inp.date_range
    /\ all_drawings' = inp.all_drawings

\* A widget change: Streamlit runs the script again with the new values.
Run(inp) ==
    /\ Set(inp)
    /\ \E o \in Passes(inp, cache) : page' = o.page /\ cache' = o.cache

\* The first run of a session.
Init ==
    /\ address_input = Defaults.address_input
    /\ monthly_bill = Defaults.monthly_bill
    /\ electricity_rate = Defaults.electricity_rate
    /\ sys_capacity = Defaults.sys_capacity
    /\ sys_efficiency = Defaults.sys_efficiency
    /\ debug = Defaults.debug
    /\ use_manual = Defaults.use_manual
    /\ manual_lat = Defaults.manual_lat
    /\ manual_lon = Defaults.manual_lon
    /\ date_range = Defaults.date_range
    /\ all_drawings = Defaults.all_drawings
    /\ \E o \in Passes(Defaults, None) : page = o.page /\ cache = o.cache

\* ----------------------------------------------------------- operations
ChangeAddress ==
    \E a \in Addresses \ {address_input} :
        Run([Inputs EXCEPT !.address_input = a])
ChangeBill ==
    \E b \in Bills \ {monthly_bill} : Run([Inputs EXCEPT !.monthly_bill = b])
ChangeRate ==
    \E r \in Rates \ {electricity_rate} :
        Run([Inputs EXCEPT !.electricity_rate = r])
ChangeCapacity ==
    \E k \in Capacities \ {sys_capacity} :
        Run([Inputs EXCEPT !.sys_capacity = k])
ChangeEfficiency ==
    \E e \in Efficiencies \ {sys_efficiency} :
        Run([Inputs EXCEPT !.sys_efficiency = e])
ToggleDebug == Run([Inputs EXCEPT !.debug = ~debug])
\* Lines 96-101: the two number inputs exist only while the box is ticked,
\* and come up with their defaults.
ToggleManual ==
    Run([Inputs EXCEPT !.use_manual = ~use_manual,
                       !.manual_lat = IF use_manual THEN None ELSE Some(DefaultLat),
                       !.manual_lon = IF use_manual THEN None ELSE Some(DefaultLon)])
ChangeManualLat ==
    /\ use_manual
    /\ \E x \in Lats \ {Val(manual_lat)} :
           Run([Inputs EXCEPT !.manual_lat = Some(x)])
ChangeManualLon ==
    /\ use_manual
    /\ \E x \in Lons \ {Val(manual_lon)} :
           Run([Inputs EXCEPT !.manual_lon = Some(x)])
\* The date picker is on the page only after tab_hourly has run.
ChangeDateRange ==
    /\ page.csv # None
    /\ \E d \in DateRanges \ {date_range} :
           Run([Inputs EXCEPT !.date_range = d])
\* The map is on the page only after tab_area has run.
DrawShape ==
    /\ page.map_shown
    /\ Len(all_drawings) < MaxDrawings
    /\ \E g \in Shapes : Run([Inputs EXCEPT !.all_drawings = Append(@, g)])
RemoveShapes ==
    /\ page.map_shown
    /\ all_drawings # <<>>
    /\ Run([Inputs EXCEPT !.all_drawings = <<>>])
\* The user asks for a rerun with nothing changed.
Rerun == Run(Inputs)
\* ttl=3600: the entry is dropped an hour after it was stored.
CacheExpire ==
    /\ cache # None
    /\ cache' = None
    /\ UNCHANGED <<widgets, page>>

Next ==
    \/ ChangeAddress \/ ChangeBill \/ ChangeRate \/ ChangeCapacity
    \/ ChangeEfficiency \/ ToggleDebug \/ ToggleManual \/ ChangeManualLat
    \/ ChangeManualLon \/ ChangeDateRange \/ DrawShape \/ RemoveShapes
    \/ Rerun \/ CacheExpire
Spec == Init /\ [][Next]_vars

\* Sessions in which the user works on one part of the page.
NextFlow ==
    \/ ChangeAddress \/ ToggleDebug \/ ToggleManual \/ ChangeManualLat
    \/ ChangeManualLon \/ Rerun \/ CacheExpire
SpecFlow == Init /\ [][NextFlow]_vars
NextYield ==
    \/ ChangeBill \/ ChangeRate \/ ChangeCapacity \/ ChangeEfficiency
    \/ Rerun \/ CacheExpire
SpecYield == Init /\ [][NextYield]_vars
NextHourly == ChangeDateRange \/ Rerun \/ CacheExpire
SpecHourly == Init /\ [][NextHourly]_vars
NextArea == DrawShape \/ RemoveShapes \/ Rerun \/ CacheExpire
SpecArea == Init /\ [][NextArea]_vars

\* --------------------------------------------------------------- claims
Last(q) == q[Len(q)]
Reached119 == address_input # "" \/ use_manual

\* C1: in a pass that geocodes the address and gets no result (nothing found,
\* or the geocoder call raised), the address-not-found message is shown,
\* fetch_archive_data is not called and no exception leaves the pass.
C1_AddressNotFound ==
    (page.geocoded /\ Val(page.geocode).lat = None)
        => /\ "Address not found" \in page.shown
           /\ ~page.fetch_called
           /\ page.exception = ""
C1_Witness ==
    /\ page.geocoded
    /\ Val(page.geocode).lat = None
    /\ "Geocoding error" \in page.shown
    /\ "Address not found" \in page.shown
    /\ cache # None

\* C2: in a pass with coordinates whose fetch returns no data, the outcome is
\* reported on the page whatever the DEBUG box says: something beyond the
\* heading and the empty tabs is shown.
C2_FetchFailureReported ==
    (page.fetch_called /\ ~page.has_data)
        => page.shown \ {"Analyzing", "tabs", "Geocoding error"} # {}

\* C3: the bill offset is never computed with a zero divisor: no pass shows
\* an infinite or NaN bill offset or ends in ZeroDivisionError.
C3_NoZeroDivisor ==
    page.df # None
        => /\ page.exception # "ZeroDivisionError"
           /\ page.bill_offset # None => Val(page.bill_offset).kind = "finite"

\* C4: no outcome of the geocoder call or of the irradiance call ends the
\* pass in an uncaught exception.
C4_NoUncaughtException == page.exception = ""

\* C5: a sample whose ghi is null has production exactly 0, in df and in the
\* CSV export.
C5_NullGhiIsZero ==
    page.df # None
        => \A i \in 1..Len(Val(page.df)) :
              Val(page.df)[i].ghi = None
                => /\ Val(page.df)[i].production = Some(0)
                   /\ page.csv # None => Val(page.csv)[i + 1][3] = "0"

\* C6: the monthly view has exactly one row per calendar month that has a
\* sample, in ascending month order, none for a month without samples, and
\* its totals add up to annual_yield, the sum of the samples' production.
RECURSIVE TotalFrom(_, _)
TotalFrom(rows, i) ==
    IF i > Len(rows) THEN 0 ELSE rows[i].production + TotalFrom(rows, i + 1)
Produced(r) == IF r.production = NaN THEN 0 ELSE Val(r.production)
RECURSIVE ProducedBy(_, _)
ProducedBy(df, n) == IF n = 0 THEN 0 ELSE ProducedBy(df, n - 1) + Produced(df[n])
C6_MonthlyConservation ==
    page.monthly_df # None
        => LET m == Val(page.monthly_df)
               df == Val(page.df)
           IN  /\ { m[k].month : k \in 1..Len(m) }
                    = { df[i].Timestamp.month : i \in 1..Len(df) }
               /\ \A k \in 1..Len(m) : \A l \in 1..Len(m) :
                      k < l => m[k].month < m[l].month
               /\ \A k \in 1..Len(m) : m[k].month \in 1..12
               /\ TotalFrom(m, 1) = Val(page.annual_yield)
               /\ Val(page.annual_yield) = ProducedBy(df, Len(df))
C6_Witness ==
    /\ page.monthly_df # None
    /\ Len(Val(page.monthly_df)) = 2
    /\ Val(page.monthly_df)[1].month = 1
    /\ Val(page.monthly_df)[2].month = 4
    /\ Val(page.monthly_df)[1].production > 0
    /\ Val(page.monthly_df)[2].production > 0
    /\ sys_capacity # DefaultCapacity

\* C7: the range-filtered hourly view is the rows of df, in df's order, whose
\* calendar date d has start <= d <= end; an inverted range gives the empty
\* view and no error; df, as exported to CSV, keeps all its rows.
Ordinal(d) ==
    <<0, 31, 59, 90, 120, 151, 181, 212, 243, 273, 304, 334>>[d[1]] + d[2]
Within(r) ==
    /\ Ordinal(date_range[1]) <= Ordinal(<<r.Timestamp.month, r.Timestamp.day>>)
    /\ Ordinal(<<r.Timestamp.month, r.Timestamp.day>>) <= Ordinal(date_range[2])
C7_RangeFilter ==
    (page.csv # None /\ Len(date_range) = 2)
        => LET df == Val(page.df)
               f == Val(page.filtered_df)
           IN  /\ page.filtered_df # None
               /\ page.exception = ""
               /\ Len(f) = Cardinality({ i \in 1..Len(df) : Within(df[i]) })
               /\ \A a \in 1..Len(f) :
                      Within(f[a]) /\ \E i \in 1..Len(df) : df[i] = f[a]
               /\ \A a \in 1..Len(f) : \A b \in 1..Len(f) :
                      a < b => \E i \in 1..Len(df) : \E k \in 1..Len(df) :
                                 i < k /\ df[i] = f[a] /\ df[k] = f[b]
               /\ Ordinal(date_range[1]) > Ordinal(date_range[2]) => f = <<>>
               /\ Len(Val(page.csv)) = Len(df) + 1
C7_Witness ==
    /\ page.filtered_df # None
    /\ Len(Val(page.filtered_df)) = 1
    /\ Len(Val(page.df)) = 2
    /\ date_range # DefaultDateRange

\* C8: the area is computed only for a polygon that is not degenerate: when
\* the last drawn shape is not a Polygon or encloses nothing, no area and no
\* capacity are shown and the user is told to draw a polygon; an area that
\* is shown is non-negative and the capacity is a tenth of it.
Degenerate(g) == Shoelace(g.coordinates, 1) = 0
C8_OnlyProperPolygons ==
    (page.map_shown /\ all_drawings # <<>>)
        => IF Last(all_drawings).type # "Polygon" \/ Degenerate(Last(all_drawings))
           THEN /\ page.area_sqm = None
                /\ page.est_capacity = None
                /\ "Please draw a polygon or rectangle." \in page.shown
           ELSE /\ page.area_sqm # None
                /\ Val(page.area_sqm) >= 0
                /\ Val(page.est_capacity) * 10 = Val(page.area_sqm) * 1000

\* C9: in a pass with coordinates and a drawn polygon, the area and the
\* implied capacity are shown whether or not the fetch returned data.
C9_AreaIndependentOfFetch ==
    (Truthy(page.lat) /\ page.exception = "" /\ all_drawings # <<>>
       /\ Last(all_drawings).type = "Polygon")
        => page.area_sqm # None /\ page.est_capacity # None

\* C10: a pass goes on to the fetch exactly when the latitude is truthy: a
\* manual latitude of 0 with any longitude ends in the address-not-found
\* branch with no fetch, as a failed geocode does, and any other manual
\* latitude is fetched with the coordinates as entered.
C10_FetchIffLatTruthy ==
    /\ use_manual
         => IF Val(manual_lat) = 0
            THEN /\ ~page.fetch_called
                 /\ "Address not found" \in page.shown
            ELSE /\ page.fetch_called
                 /\ page.fetch_args = Some(<<Val(manual_lat), Val(manual_lon)>>)
                 /\ ~("Address not found" \in page.shown)
    /\ ~use_manual
         => page.fetch_called
              = (page.geocoded /\ Val(page.geocode).lat # None
                 /\ Val(Val(page.geocode).lat) # 0)
    /\ ~Reached119 => ~page.fetch_called
C10_Witness ==
    /\ use_manual
    /\ manual_lat = Some(0)
    /\ manual_lon = Some(0)
    /\ "Address not found" \in page.shown
    /\ ~page.fetch_called

====
